---------------------------- MODULE Spec2Model ----------------------------
(***************************************************************************)
(* NAMASTE -> ICD-11 mapping: the batch script (src/main.py) and the       *)
(* FastAPI service (src/sample.py).                                        *)
(*                                                                         *)
(* Text is modelled as a sequence of characters (each character a          *)
(* one-element string, the letter a-macron of the configured definition    *)
(* being the single character "a-macron"), so that lower(), re.sub,        *)
(* split(), the substring tests and difflib's matching blocks are computed *)
(* as the code computes them.  A float score is modelled as the exact      *)
(* fraction [n, d] in lowest terms; the comparisons of the code are the    *)
(* comparisons of these fractions.                                         *)
(***************************************************************************)
EXTENDS Integers, Sequences, FiniteSets, TLC

(***************************************************************************)
(* Configuration tables of the two programs                                *)
(***************************************************************************)

stop_words ==
    {
      <<"i", "s">>,   \* is
      <<"a", "r", "e">>,   \* are
      <<"t", "h", "e">>,   \* the
      <<"a", "n", "d">>,   \* and
      <<"o", "r">>,   \* or
      <<"o", "f">>,   \* of
      <<"i", "n">>,   \* in
      <<"t", "o">>,   \* to
      <<"b", "y">>,   \* by
      <<"a", "t">>,   \* at
      <<"s", "u", "c", "h">>,   \* such
      <<"a", "s">>,   \* as
      <<"t", "h", "i", "s">>,   \* this
      <<"m", "a", "y">>,   \* may
      <<"b", "e">>,   \* be
      <<"i", "t">>,   \* it
      <<"w", "i", "t", "h">>,   \* with
      <<"a">>,   \* a
      <<"a", "n">>,   \* an
      <<"v", "a", "r", "i", "o", "u", "s">>,   \* various
      <<"p", "a", "r", "t", "s">>,   \* parts
      <<"b", "o", "d", "y">>,   \* body
      <<"f", "u", "n", "c", "t", "i", "o", "n", "s">>,   \* functions
      <<"c", "o", "n", "s", "e", "q", "u", "e", "n", "t">>,   \* consequent
      <<"e", "x", "p", "l", "a", "i", "n", "e", "d">>,   \* explained
      <<"m", "a", "r", "k", "e", "d">>,   \* marked
      <<"i", "n", "c", "r", "e", "a", "s", "e">>   \* increase
    }

medical_terms_main ==
    <<
      <<"r", "o", "u", "g", "h", "n", "e", "s", "s">>,   \* roughness
      <<"h", "o", "a", "r", "s", "e", "n", "e", "s", "s">>,   \* hoarseness
      <<"v", "o", "i", "c", "e">>,   \* voice
      <<"e", "m", "a", "c", "i", "a", "t", "i", "o", "n">>,   \* emaciation
      <<"b", "l", "a", "c", "k", "i", "s", "h">>,   \* blackish
      <<"d", "i", "s", "c", "o", "l", "o", "r", "a", "t", "i", "o", "n">>,   \* discoloration
      <<"t", "w", "i", "t", "c", "h", "i", "n", "g">>,   \* twitching
      <<"w", "a", "r", "m", "t", "h">>,   \* warmth
      <<"i", "n", "s", "o", "m", "n", "i", "a">>,   \* insomnia
      <<"s", "t", "r", "e", "n", "g", "t", "h">>,   \* strength
      <<"s", "t", "o", "o", "l", "s">>,   \* stools
      <<"p", "h", "y", "s", "i", "o", "l", "o", "g", "i", "c", "a", "l">>,   \* physiological
      <<"p", "a", "t", "h", "o", "l", "o", "g", "i", "c", "a", "l">>   \* pathological
    >>

medical_terms_sample ==
    <<
      <<"m", "o", "v", "e", "m", "e", "n", "t">>,   \* movement
      <<"a", "b", "d", "o", "m", "e", "n">>,   \* abdomen
      <<"f", "u", "l", "l", "n", "e", "s", "s">>,   \* fullness
      <<"a", "v", "e", "r", "s", "i", "o", "n">>,   \* aversion
      <<"c", "o", "l", "d">>,   \* cold
      <<"i", "m", "p", "a", "i", "r", "e", "d">>,   \* impaired
      <<"a", "c", "c", "u", "m", "u", "l", "a", "t", "i", "o", "n">>,   \* accumulation
      <<"r", "o", "u", "g", "h", "n", "e", "s", "s">>,   \* roughness
      <<"h", "o", "a", "r", "s", "e", "n", "e", "s", "s">>,   \* hoarseness
      <<"v", "o", "i", "c", "e">>,   \* voice
      <<"e", "m", "a", "c", "i", "a", "t", "i", "o", "n">>,   \* emaciation
      <<"b", "l", "a", "c", "k", "i", "s", "h">>,   \* blackish
      <<"d", "i", "s", "c", "o", "l", "o", "r", "a", "t", "i", "o", "n">>,   \* discoloration
      <<"t", "w", "i", "t", "c", "h", "i", "n", "g">>,   \* twitching
      <<"w", "a", "r", "m", "t", "h">>,   \* warmth
      <<"i", "n", "s", "o", "m", "n", "i", "a">>,   \* insomnia
      <<"s", "t", "r", "e", "n", "g", "t", "h">>,   \* strength
      <<"s", "t", "o", "o", "l", "s">>   \* stools
    >>

\* "vAtavRuddhiH"
nam_term ==
    <<"v", "A", "t", "a", "v", "R", "u", "d", "d", "h", "i", "H">>

\* "SR12 (AAA-2)"
nam_code ==
    <<"S", "R", "1", "2", " ", "(", "A", "A", "A", "-", "2", ")">>

\* "It is characterized by roughness or hoarseness of voice, emaciation, blackish"
\* "discoloration of body, twitching in various parts of body, desire for warmth, insomnia,"
\* "reduced physical strength, hard stools. This may be explained by marked increase of"
\* "vatadosha functions and consequent physiological and pathological ramifications."
nam_def ==
    <<"I", "t", " ", "i", "s", " ", "c", "h", "a", "r", "a", "c", "t", "e", "r", "i", "z",
      "e", "d", " ", "b", "y", " ", "r", "o", "u", "g", "h", "n", "e", "s", "s", " ", "o",
      "r", " ", "h", "o", "a", "r", "s", "e", "n", "e", "s", "s", " ", "o", "f", " ", "v",
      "o", "i", "c", "e", ",", " ", "e", "m", "a", "c", "i", "a", "t", "i", "o", "n", ",",
      " ", "b", "l", "a", "c", "k", "i", "s", "h", " ", "d", "i", "s", "c", "o", "l", "o",
      "r", "a", "t", "i", "o", "n", " ", "o", "f", " ", "b", "o", "d", "y", ",", " ", "t",
      "w", "i", "t", "c", "h", "i", "n", "g", " ", "i", "n", " ", "v", "a", "r", "i", "o",
      "u", "s", " ", "p", "a", "r", "t", "s", " ", "o", "f", " ", "b", "o", "d", "y", ",",
      " ", "d", "e", "s", "i", "r", "e", " ", "f", "o", "r", " ", "w", "a", "r", "m", "t",
      "h", ",", " ", "i", "n", "s", "o", "m", "n", "i", "a", ",", " ", "r", "e", "d", "u",
      "c", "e", "d", " ", "p", "h", "y", "s", "i", "c", "a", "l", " ", "s", "t", "r", "e",
      "n", "g", "t", "h", ",", " ", "h", "a", "r", "d", " ", "s", "t", "o", "o", "l", "s",
      ".", " ", "T", "h", "i", "s", " ", "m", "a", "y", " ", "b", "e", " ", "e", "x", "p",
      "l", "a", "i", "n", "e", "d", " ", "b", "y", " ", "m", "a", "r", "k", "e", "d", " ",
      "i", "n", "c", "r", "e", "a", "s", "e", " ", "o", "f", " ", "v", "a", "t", "a", "d",
      "o", "s", "h", "a", " ", "f", "u", "n", "c", "t", "i", "o", "n", "s", " ", "a", "n",
      "d", " ", "c", "o", "n", "s", "e", "q", "u", "e", "n", "t", " ", "p", "h", "y", "s",
      "i", "o", "l", "o", "g", "i", "c", "a", "l", " ", "a", "n", "d", " ", "p", "a", "t",
      "h", "o", "l", "o", "g", "i", "c", "a", "l", " ", "r", "a", "m", "i", "f", "i", "c",
      "a", "t", "i", "o", "n", "s", ".">>

\* "6"
entry6_code ==
    <<"6">>

\* "vAtasa~jcayaH"
entry6_term ==
    <<"v", "A", "t", "a", "s", "a", "~", "j", "c", "a", "y", "a", "H">>

\* "It is characterized by impaired movements of va-macronta, fullness of abdomen and aversion to"
\* "factors causing of increase of va-macronta such as cold. This may be explained by accumulation"
\* "of vatadosha at the designated site to a moderate level resulting in accumulation."
entry6_definition ==
    <<"I", "t", " ", "i", "s", " ", "c", "h", "a", "r", "a", "c", "t", "e", "r", "i", "z",
      "e", "d", " ", "b", "y", " ", "i", "m", "p", "a", "i", "r", "e", "d", " ", "m", "o",
      "v", "e", "m", "e", "n", "t", "s", " ", "o", "f", " ", "v", "a-macron", "t", "a", ",",
      " ", "f", "u", "l", "l", "n", "e", "s", "s", " ", "o", "f", " ", "a", "b", "d", "o",
      "m", "e", "n", " ", "a", "n", "d", " ", "a", "v", "e", "r", "s", "i", "o", "n", " ",
      "t", "o", " ", "f", "a", "c", "t", "o", "r", "s", " ", "c", "a", "u", "s", "i", "n",
      "g", " ", "o", "f", " ", "i", "n", "c", "r", "e", "a", "s", "e", " ", "o", "f", " ",
      "v", "a-macron", "t", "a", " ", "s", "u", "c", "h", " ", "a", "s", " ", "c", "o", "l",
      "d", ".", " ", "T", "h", "i", "s", " ", "m", "a", "y", " ", "b", "e", " ", "e", "x",
      "p", "l", "a", "i", "n", "e", "d", " ", "b", "y", " ", "a", "c", "c", "u", "m", "u",
      "l", "a", "t", "i", "o", "n", " ", "o", "f", " ", "v", "a", "t", "a", "d", "o", "s",
      "h", "a", " ", "a", "t", " ", "t", "h", "e", " ", "d", "e", "s", "i", "g", "n", "a",
      "t", "e", "d", " ", "s", "i", "t", "e", " ", "t", "o", " ", "a", " ", "m", "o", "d",
      "e", "r", "a", "t", "e", " ", "l", "e", "v", "e", "l", " ", "r", "e", "s", "u", "l",
      "t", "i", "n", "g", " ", "i", "n", " ", "a", "c", "c", "u", "m", "u", "l", "a", "t",
      "i", "o", "n", ".">>

symptom_phrases ==
    <<
      <<"v", "o", "i", "c", "e", " ", "h", "o", "a", "r", "s", "e", "n", "e", "s", "s">>,   \* voice hoarseness
      <<"m", "u", "s", "c", "l", "e", " ", "t", "w", "i", "t", "c", "h", "i", "n", "g">>,   \* muscle twitching
      <<"s", "l", "e", "e", "p", " ", "d", "i", "s", "o", "r", "d", "e", "r", "s">>,   \* sleep disorders
      <<"c", "o", "n", "s", "t", "i", "p", "a", "t", "i", "o", "n">>,   \* constipation
      <<"s", "k", "i", "n", " ", "d", "i", "s", "c", "o", "l", "o", "r", "a", "t", "i", "o", "n">>,   \* skin discoloration
      <<"m", "u", "s", "c", "l", "e", " ", "w", "e", "a", "k", "n", "e", "s", "s">>   \* muscle weakness
    >>

s_hoarseness ==
    <<"h", "o", "a", "r", "s", "e", "n", "e", "s", "s">>

s_voice ==
    <<"v", "o", "i", "c", "e">>

s_hard ==
    <<"h", "a", "r", "d">>

s_stools ==
    <<"s", "t", "o", "o", "l", "s">>

s_physical ==
    <<"p", "h", "y", "s", "i", "c", "a", "l">>

s_strength ==
    <<"s", "t", "r", "e", "n", "g", "t", "h">>

s_blackish ==
    <<"b", "l", "a", "c", "k", "i", "s", "h">>

s_discoloration ==
    <<"d", "i", "s", "c", "o", "l", "o", "r", "a", "t", "i", "o", "n">>

s_hoarse_voice ==
    <<"h", "o", "a", "r", "s", "e", " ", "v", "o", "i", "c", "e">>

s_hard_stools ==
    <<"h", "a", "r", "d", " ", "s", "t", "o", "o", "l", "s">>

s_weakness ==
    <<"w", "e", "a", "k", "n", "e", "s", "s">>

s_skin_discoloration ==
    <<"s", "k", "i", "n", " ", "d", "i", "s", "c", "o", "l", "o", "r", "a", "t", "i", "o", "n">>
\* "Vata disorder"
t_vata_disorder ==
    <<"V", "a", "t", "a", " ", "d", "i", "s", "o", "r", "d", "e", "r">>

\* "Spleen"
t_spleen ==
    <<"S", "p", "l", "e", "e", "n">>

\* "Emaciation"
t_emaciation ==
    <<"E", "m", "a", "c", "i", "a", "t", "i", "o", "n">>

\* "Vata dryness"
t_vata_dryness ==
    <<"V", "a", "t", "a", " ", "d", "r", "y", "n", "e", "s", "s">>

\* "Decoloured"
t_decoloured ==
    <<"D", "e", "c", "o", "l", "o", "u", "r", "e", "d">>

\* "SR12"
q_sr12 ==
    <<"S", "R", "1", "2">>

\* " vAta"
q_vata ==
    <<" ", "v", "A", "t", "a", " ">>

\* "6"
q_six ==
    <<"6">>

\* "zzz"
q_zzz ==
    <<"z", "z", "z">>

\* "hoarseness of voice,"
p_hoarse ==
    <<"h", "o", "a", "r", "s", "e", "n", "e", "s", "s", " ", "o", "f", " ", "v", "o", "i",
      "c", "e", ",", " ">>

\* "Hard stools."
p_hard ==
    <<"H", "a", "r", "d", " ", "s", "t", "o", "o", "l", "s", ".", " ">>

\* "physical strength;"
p_strength ==
    <<"p", "h", "y", "s", "i", "c", "a", "l", " ", "s", "t", "r", "e", "n", "g", "t", "h",
      ";", " ">>

\* "blackish discoloration of body"
p_blackish ==
    <<"b", "l", "a", "c", "k", "i", "s", "h", " ", "d", "i", "s", "c", "o", "l", "o", "r",
      "a", "t", "i", "o", "n", " ", "o", "f", " ", "b", "o", "d", "y", " ">>

\* "Roughness twitching warmth insomnia"
p_four ==
    <<"R", "o", "u", "g", "h", "n", "e", "s", "s", " ", "t", "w", "i", "t", "c", "h", "i",
      "n", "g", " ", "w", "a", "r", "m", "t", "h", " ", "i", "n", "s", "o", "m", "n", "i",
      "a", " ">>

\* "the body is marked by such functions"
p_stop ==
    <<"t", "h", "e", " ", "b", "o", "d", "y", " ", "i", "s", " ", "m", "a", "r", "k", "e",
      "d", " ", "b", "y", " ", "s", "u", "c", "h", " ", "f", "u", "n", "c", "t", "i", "o",
      "n", "s", " ">>

\* "...!?"
p_punct ==
    <<".", ".", ".", "!", "?", " ">>

\* "voice_box VOICE"
p_under ==
    <<"v", "o", "i", "c", "e", "_", "b", "o", "x", " ", "V", "O", "I", "C", "E", " ">>

(***************************************************************************)
(* Characters and strings                                                  *)
(***************************************************************************)

UpperChars ==
    <<"A", "B", "C", "D", "E", "F", "G", "H", "I", "J", "K", "L", "M",
      "N", "O", "P", "Q", "R", "S", "T", "U", "V", "W", "X", "Y", "Z">>

LowerChars ==
    <<"a", "b", "c", "d", "e", "f", "g", "h", "i", "j", "k", "l", "m",
      "n", "o", "p", "q", "r", "s", "t", "u", "v", "w", "x", "y", "z">>

DigitChars == {"0", "1", "2", "3", "4", "5", "6", "7", "8", "9"}

\* str.lower() on one character
LowerChar(c) ==
    IF \E i \in DOMAIN UpperChars : UpperChars[i] = c
    THEN LowerChars[CHOOSE i \in DOMAIN UpperChars : UpperChars[i] = c]
    ELSE c

\* str.lower()
lower(s) == <<>> \o [i \in DOMAIN s |-> LowerChar(s[i])]

\* str.strip(): leading and trailing whitespace removed
IsSpace(c) == c \in {" ", "\t", "\n", "\r"}

\* the regex class \w on text: letters (any script), digits and the underscore
IsWord(c) ==
    \/ \E i \in DOMAIN LowerChars : LowerChars[i] = c
    \/ \E i \in DOMAIN UpperChars : UpperChars[i] = c
    \/ c \in DigitChars
    \/ c = "_"
    \/ c = "a-macron"

\* the Python test  `needle in hay`  on strings
Contains(hay, needle) ==
    \E i \in 0..(Len(hay) - Len(needle)) :
        \A j \in 1..Len(needle) : hay[i + j] = needle[j]

\* the text left as it is, punctuation included
SubNothing(s) == s

\* re.sub(r'[^\w\s]', ' ', s)
SubNonWord(s) ==
    <<>> \o [i \in DOMAIN s |-> IF IsWord(s[i]) \/ IsSpace(s[i]) THEN s[i] ELSE " "]

\* the elements of a finite set of numbers, in increasing order
RECURSIVE Ascending(_)
Ascending(S) ==
    IF S = {}
    THEN <<>>
    ELSE LET m == CHOOSE x \in S : \A y \in S : x <= y
         IN  <<m>> \o Ascending(S \ {m})

\* str.split(): the maximal runs of non-whitespace characters, in order
split(s) ==
    LET starts == Ascending({i \in 1..Len(s) :
                      ~IsSpace(s[i]) /\ (i = 1 \/ IsSpace(s[i - 1]))})
        ends == Ascending({i \in 1..Len(s) :
                      ~IsSpace(s[i]) /\ (i = Len(s) \/ IsSpace(s[i + 1]))})
    IN  <<>> \o [k \in 1..Len(starts) |-> SubSeq(s, starts[k], ends[k])]

(***************************************************************************)
(* Keyword extraction                                                      *)
(***************************************************************************)

\* [word for word in words if len(word) > 3 and word not in stop_words]
FilterKeywords(words) ==
    SelectSeq(words, LAMBDA w : Len(w) > 3 /\ w \notin stop_words)

\* the loop appending to medical_keywords
FilterMedical(keywords, terms) ==
    SelectSeq(keywords,
              LAMBDA w : \E k \in DOMAIN terms : Contains(w, terms[k]))

\* the chain of  if ... in definition.lower() and ... : compound_terms.append
RECURSIVE CompoundTerms(_, _)
CompoundTerms(low, rules) ==
    IF rules = <<>>
    THEN <<>>
    ELSE (IF Contains(low, Head(rules).a) /\ Contains(low, Head(rules).b)
          THEN <<Head(rules).out>>
          ELSE <<>>) \o CompoundTerms(low, Tail(rules))

compound_rules_main ==
    << [a |-> s_hoarseness, b |-> s_voice, out |-> s_hoarse_voice],
       [a |-> s_hard, b |-> s_stools, out |-> s_hard_stools],
       [a |-> s_physical, b |-> s_strength, out |-> s_weakness],
       [a |-> s_blackish, b |-> s_discoloration, out |-> s_skin_discoloration] >>

compound_rules_sample ==
    << [a |-> s_hoarseness, b |-> s_voice, out |-> s_hoarse_voice],
       [a |-> s_hard, b |-> s_stools, out |-> s_hard_stools],
       [a |-> s_physical, b |-> s_strength, out |-> s_weakness] >>

MaxKeywords == 8

\* a slice one entry too long: all_keywords[:9]
TruncateNine(s) == SubSeq(s, 1, IF Len(s) < MaxKeywords + 1 THEN Len(s) ELSE MaxKeywords + 1)

\* all_keywords[:8]
Truncate(s) == SubSeq(s, 1, IF Len(s) < MaxKeywords THEN Len(s) ELSE MaxKeywords)

ExtractWith(definition, terms, rules) ==
    LET clean_def == SubNonWord(lower(definition))
        words == split(clean_def)
        keywords == FilterKeywords(words)
        medical_keywords == FilterMedical(keywords, terms)
        compound_terms == CompoundTerms(lower(definition), rules)
        all_keywords == medical_keywords \o compound_terms
    IN  Truncate(all_keywords)

\* extract_keywords of the batch script
extract_keywords_main(definition) ==
    ExtractWith(definition, medical_terms_main, compound_rules_main)

\* extract_keywords of the service
extract_keywords_sample(definition) ==
    ExtractWith(definition, medical_terms_sample, compound_rules_sample)

(***************************************************************************)
(* Similarity: difflib.SequenceMatcher(None, a.lower(), b.lower()).ratio() *)
(* (the autojunk heuristic only acts on a second string of 200 or more     *)
(* characters, which no title reaches)                                     *)
(***************************************************************************)

\* length of the common run of a from i and b from j, inside a[..ahi], b[..bhi]
RECURSIVE RunLen(_, _, _, _, _, _)
RunLen(a, i, ahi, b, j, bhi) ==
    IF i > ahi \/ j > bhi \/ a[i] # b[j]
    THEN 0
    ELSE 1 + RunLen(a, i + 1, ahi, b, j + 1, bhi)

\* find_longest_match(alo, ahi, blo, bhi): the longest block; of those the one
\* starting earliest in a; of those the one starting earliest in b.
\* Positions are 1-based and the ranges alo..ahi, blo..bhi inclusive.
find_longest_match(a, alo, ahi, b, blo, bhi) ==
    LET Pairs == {p \in (alo..ahi) \X (blo..bhi) : a[p[1]] = b[p[2]]}
        sizes == {RunLen(a, p[1], ahi, b, p[2], bhi) : p \in Pairs}
        bestsize == CHOOSE k \in sizes : \A m \in sizes : m <= k
        longest == {p \in Pairs : RunLen(a, p[1], ahi, b, p[2], bhi) = bestsize}
        besti == CHOOSE i \in {p[1] : p \in longest} :
                     \A p \in longest : i <= p[1]
        bestj == CHOOSE j \in {p[2] : p \in {q \in longest : q[1] = besti}} :
                     \A p \in {q \in longest : q[1] = besti} : j <= p[2]
    IN  IF Pairs = {}
        THEN [i |-> alo, j |-> blo, size |-> 0]
        ELSE [i |-> besti, j |-> bestj, size |-> bestsize]

\* get_matching_blocks(): total size of the blocks, found by matching the
\* longest block and then the pieces to its left and to its right
RECURSIVE MatchedSize(_, _, _, _, _, _)
MatchedSize(a, alo, ahi, b, blo, bhi) ==
    IF alo > ahi \/ blo > bhi
    THEN 0
    ELSE LET m == find_longest_match(a, alo, ahi, b, blo, bhi)
         IN  IF m.size = 0
             THEN 0
             ELSE m.size
                  + MatchedSize(a, alo, m.i - 1, b, blo, m.j - 1)
                  + MatchedSize(a, m.i + m.size, ahi, b, m.j + m.size, bhi)

RECURSIVE GCD(_, _)
GCD(x, y) == IF y = 0 THEN x ELSE GCD(y, x % y)

\* the fraction n/d in lowest terms
Frac(n, d) == LET g == GCD(n, d) IN [n |-> n \div g, d |-> d \div g]

Zero == Frac(0, 1)

\* the float comparisons  x > y  and  max(x, y)
Gt(x, y) == x.n * y.d > y.n * x.d

Max(x, y) == IF Gt(y, x) THEN y ELSE x

\* x * (p / q)
Times(x, p, q) == Frac(x.n * p, x.d * q)

\* _calculate_ratio(matches, length): 2.0 * matches / length, 1.0 for length 0
ratio(a, b) ==
    LET length == Len(a) + Len(b)
    IN  IF length = 0
        THEN Frac(1, 1)
        ELSE Frac(2 * MatchedSize(a, 1, Len(a), b, 1, Len(b)), length)

similarity(a, b) == ratio(lower(a), lower(b))

(***************************************************************************)
(* The remote services: what the token endpoint and the search API may     *)
(* answer                                                                  *)
(***************************************************************************)

\* a Python value that may be None: None is <<>>, the value v is <<v>>
None == <<>>

Some(v) == <<v>>

\* r.json()["access_token"]: every credential exchange issues a new token
AccessToken(k) == <<"token", k>>

\* r.json().get("destinationEntities", []): the entities a search may return;
\* a missing "title" or "theCode" reads as "" through c.get(key, "")
RawCandidates ==
    { [theCode |-> "FB56.0", title |-> t_vata_disorder],
      [theCode |-> "FB56.0", title |-> t_spleen],
      [theCode |-> "SM24", title |-> t_emaciation],
      [theCode |-> "SM24", title |-> t_vata_disorder],
      [theCode |-> "FB56.0", title |-> t_vata_dryness],
      [theCode |-> "SM24", title |-> t_decoloured],
      [theCode |-> "", title |-> t_vata_disorder],
      [theCode |-> "SM24", title |-> <<>>] }

\* the longest list of entities one search answers with
MaxResp == 2

\* the number of entities all the searches of one aggregation answer with
MaxCands == 2

\* the number of /search requests the service handles
MaxRequests == 2

RECURSIVE SeqsUpTo(_, _)
SeqsUpTo(S, n) ==
    IF n = 0
    THEN {<<>>}
    ELSE LET shorter == SeqsUpTo(S, n - 1)
         IN  shorter \cup {Append(s, x) : s \in {t \in shorter : Len(t) = n - 1}, x \in S}

Responses == SeqsUpTo(RawCandidates, MaxResp)

\* the request bodies sent to POST /search
Queries == {q_sr12, q_vata, q_six, q_zzz}

(***************************************************************************)
(* The source concepts                                                     *)
(***************************************************************************)

\* NAMASTE_DATA, in dictionary order
NAMASTE_DATA ==
    << [key |-> entry6_code, code |-> entry6_code, term |-> entry6_term,
        definition |-> entry6_definition],
       [key |-> nam_code, code |-> nam_code, term |-> nam_term,
        definition |-> nam_def] >>

\* the entry build_mapping_specific() is written for
BatchEntry == [code |-> nam_code, term |-> nam_term, definition |-> nam_def]

NoEntry == [code |-> <<>>, term |-> <<>>, definition |-> <<>>]

\* str.strip()
strip(s) ==
    LET keep == {i \in 1..Len(s) : ~IsSpace(s[i])}
    IN  IF keep = {}
        THEN <<>>
        ELSE SubSeq(s, CHOOSE i \in keep : \A j \in keep : i <= j,
                       CHOOSE i \in keep : \A j \in keep : j <= i)

\* a lookup by exact key only
FindEntryExact(query) ==
    LET hits == {i \in DOMAIN NAMASTE_DATA : query = NAMASTE_DATA[i].key}
    IN  IF hits = {} THEN 0 ELSE CHOOSE i \in hits : \A j \in hits : i <= j

\* the lookup loop of search_namaste_mapping: the first entry the query matches,
\* 0 when there is none
FindEntry(query) ==
    LET Matches(e) ==
            \/ Contains(lower(e.key), lower(query))
            \/ Contains(lower(e.term), lower(query))
            \/ query = e.key
        hits == {i \in DOMAIN NAMASTE_DATA : Matches(NAMASTE_DATA[i])}
    IN  IF hits = {} THEN 0 ELSE CHOOSE i \in hits : \A j \in hits : i <= j

(***************************************************************************)
(* The candidate table: a Python dict, which keeps insertion order and     *)
(* keeps the position of a key whose value is replaced                     *)
(***************************************************************************)

HasCode(tbl, code) == \E i \in DOMAIN tbl : tbl[i].code = code

IndexOf(tbl, code) == CHOOSE i \in DOMAIN tbl : tbl[i].code = code

\* all_candidates[code] = (title, score, source)
DictSet(tbl, e) ==
    IF HasCode(tbl, e.code)
    THEN [tbl EXCEPT ![IndexOf(tbl, e.code)] = e]
    ELSE Append(tbl, e)

\* if code not in all_candidates or score > all_candidates[code][1]: ... = ...
MergeIfBetter(tbl, e) ==
    IF ~HasCode(tbl, e.code) \/ Gt(e.score, tbl[IndexOf(tbl, e.code)].score)
    THEN DictSet(tbl, e)
    ELSE tbl

\* the first pass: all_candidates[code] = (title, score, "NAMASTE_term")
MergeTerm(tbl, e) == DictSet(tbl, e)

\* round(x, 3), in thousandths (ties to even)
Round3(x) ==
    LET q == (x.n * 1000) \div x.d
        r2 == 2 * ((x.n * 1000) % x.d)
    IN  IF r2 > x.d \/ (r2 = x.d /\ q % 2 = 1) THEN q + 1 ELSE q

\* the list left in table order
SortNone(s) == s

\* list.sort(key=lambda x: x.similarity, reverse=True): stable, descending
RECURSIVE SortDesc(_)
SortDesc(s) ==
    IF s = <<>>
    THEN <<>>
    ELSE LET rest == SortDesc(Tail(s))
             h == Head(s)
             \* h goes before the first element that is not greater than it
             before == {i \in DOMAIN rest :
                           \A j \in 1..i : rest[j].similarity > h.similarity}
             k == Cardinality(before)
         IN  SubSeq(rest, 1, k) \o <<h>> \o SubSeq(rest, k + 1, Len(rest))

\* sorted(all_candidates.items(), key=lambda x: x[1][1], reverse=True): stable,
\* descending in the score
RECURSIVE SortByScore(_)
SortByScore(s) ==
    IF s = <<>>
    THEN <<>>
    ELSE LET rest == SortByScore(Tail(s))
             h == Head(s)
             before == {i \in DOMAIN rest :
                           \A j \in 1..i : Gt(rest[j].score, h.score)}
             k == Cardinality(before)
         IN  SubSeq(rest, 1, k) \o <<h>> \o SubSeq(rest, k + 1, Len(rest))

\* the number of candidates listed
TopListed == 5

\* sorted_candidates[:5]
FirstFive(s) == IF Len(s) <= TopListed THEN s ELSE SubSeq(s, 1, TopListed)

(***************************************************************************)
(* State                                                                   *)
(***************************************************************************)

VARIABLES
    mode,                \* "batch": main.py, "service": sample.py
    pc,                  \* where the run or the request handler stands
    src,                 \* the source concept being mapped
    token,               \* the local variable token
    token_cache,         \* sample.py's global _token_cache
    token_calls,         \* requests.post(TOKEN_URL) calls made so far
    keywords,            \* the local variable keywords
    phase,               \* "term", "keyword" or "symptom"
    idx,                 \* position in keywords or in symptom_phrases
    pending,             \* the entities of the current answer not yet looped over
    returned,            \* entities answered so far in this aggregation
    all_candidates,      \* the candidate table
    best_overall_match,  \* main.py: the best seen so far, or None
    best_overall_score,  \* main.py: its score
    result,              \* main.py: the row built at the end, or None
    csv_writes,          \* main.py: the rows of the file, one entry per to_csv call
    top_candidates,      \* main.py: the TOP CANDIDATES listing printed
    response,            \* sample.py: the answer to the last request, or None
    requests,            \* sample.py: requests received so far
    error,               \* the exception the run or the request raised, or None
    queries,             \* history: the q of every search request sent, in order
    term_scored,         \* history: the table entries the first pass computed
    later_max,           \* history: the highest score the later passes computed
    seen_max,            \* history: per code, the highest score computed for it
    kw_def,              \* keyword extraction: the definition text
    kw_main,             \* what extract_keywords of main.py returned for it, or None
    kw_sample,           \* what extract_keywords of sample.py returned for it, or None
    sim_a,               \* similarity: the argument a
    sim_b,               \* similarity: the argument b
    sim_ab,              \* what similarity(a, b) returned, or None
    sim_ba               \* what similarity(b, a) returned, or None

aggVars ==
    <<mode, pc, src, token, token_cache, token_calls, keywords, phase, idx,
      pending, returned, all_candidates, best_overall_match, best_overall_score,
      result, csv_writes, top_candidates, response, requests, error, queries,
      term_scored,
      later_max, seen_max>>

simVars == <<sim_a, sim_b, sim_ab, sim_ba>>

kwVars == <<kw_def, kw_main, kw_sample, simVars>>

vars == <<aggVars, kwVars>>

\* what each /search request and the batch run start from
Locals ==
    /\ keywords = <<>>
    /\ phase = "term"
    /\ idx = 1
    /\ pending = <<>>
    /\ returned = 0
    /\ all_candidates = <<>>
    /\ best_overall_match = None
    /\ best_overall_score = Zero
    /\ result = None
    /\ queries = <<>>
    /\ term_scored = {}
    /\ later_max = Zero
    /\ seen_max = <<>>

Init ==
    /\ mode \in {"batch", "service"}
    /\ pc = IF mode = "batch" THEN "start" ELSE "idle"
    /\ src = IF mode = "batch" THEN BatchEntry ELSE NoEntry
    /\ token = None
    /\ token_cache = None
    /\ token_calls = 0
    /\ Locals
    /\ csv_writes = <<>>
    /\ top_candidates = <<>>
    /\ response = None
    /\ requests = 0
    /\ error = None
    /\ kw_def = <<>>
    /\ kw_main = None
    /\ kw_sample = None
    /\ sim_a = <<>>
    /\ sim_b = <<>>
    /\ sim_ab = None
    /\ sim_ba = None

(***************************************************************************)
(* The query plan                                                          *)
(***************************************************************************)

\* the q of the search the handler is about to send
CurrentQuery ==
    CASE phase = "term" -> src.term
      [] phase = "keyword" -> keywords[idx]
      [] phase = "symptom" -> symptom_phrases[idx]

\* the provenance tag of the current pass
CurrentSource ==
    CASE phase = "term" -> [kind |-> "NAMASTE_term", q |-> <<>>]
      [] phase = "keyword" -> [kind |-> "keyword", q |-> keywords[idx]]
      [] phase = "symptom" -> [kind |-> "symptom", q |-> symptom_phrases[idx]]

\* main.py: keywords as the second pass finds them (if nam_def.strip(): ...)
BatchKeywords ==
    IF strip(src.definition) # <<>>
    THEN extract_keywords_main(src.definition)
    ELSE <<>>

\* main.py: where control goes once the loop over the current answer ends
BatchAfter ==
    LET kws == IF phase = "term" THEN BatchKeywords ELSE keywords
    IN  CASE phase = "term" /\ kws # <<>> ->
                [pc |-> "search", phase |-> "keyword", idx |-> 1, keywords |-> kws]
          [] phase = "term" /\ kws = <<>> ->
                [pc |-> "search", phase |-> "symptom", idx |-> 1, keywords |-> kws]
          [] phase = "keyword" /\ idx < Len(kws) ->
                [pc |-> "search", phase |-> "keyword", idx |-> idx + 1, keywords |-> kws]
          [] phase = "keyword" /\ idx >= Len(kws) ->
                [pc |-> "search", phase |-> "symptom", idx |-> 1, keywords |-> kws]
          [] phase = "symptom" /\ idx < Len(symptom_phrases) ->
                [pc |-> "search", phase |-> "symptom", idx |-> idx + 1, keywords |-> kws]
          [] phase = "symptom" /\ idx >= Len(symptom_phrases) ->
                [pc |-> "finish", phase |-> "symptom", idx |-> idx, keywords |-> kws]

\* the service running the symptom pass as the batch script does
ServiceAfterThreePasses ==
    CASE phase = "term" /\ keywords # <<>> ->
            [pc |-> "search", phase |-> "keyword", idx |-> 1, keywords |-> keywords]
      [] phase = "term" /\ keywords = <<>> ->
            [pc |-> "search", phase |-> "symptom", idx |-> 1, keywords |-> keywords]
      [] phase = "keyword" /\ idx < Len(keywords) ->
            [pc |-> "search", phase |-> "keyword", idx |-> idx + 1, keywords |-> keywords]
      [] phase = "keyword" /\ idx >= Len(keywords) ->
            [pc |-> "search", phase |-> "symptom", idx |-> 1, keywords |-> keywords]
      [] phase = "symptom" /\ idx < Len(symptom_phrases) ->
            [pc |-> "search", phase |-> "symptom", idx |-> idx + 1, keywords |-> keywords]
      [] phase = "symptom" /\ idx >= Len(symptom_phrases) ->
            [pc |-> "finish", phase |-> "symptom", idx |-> idx, keywords |-> keywords]

\* sample.py: where control goes once the loop over the current answer ends
ServiceAfter ==
    CASE phase = "term" /\ keywords # <<>> ->
            [pc |-> "search", phase |-> "keyword", idx |-> 1, keywords |-> keywords]
      [] phase = "term" /\ keywords = <<>> ->
            [pc |-> "finish", phase |-> "term", idx |-> idx, keywords |-> keywords]
      [] phase = "keyword" /\ idx < Len(keywords) ->
            [pc |-> "search", phase |-> "keyword", idx |-> idx + 1, keywords |-> keywords]
      [] phase = "keyword" /\ idx >= Len(keywords) ->
            [pc |-> "finish", phase |-> "keyword", idx |-> idx, keywords |-> keywords]

After == IF mode = "batch" THEN BatchAfter ELSE ServiceAfter

\* the position after the current answer's last entity
GoOn ==
    LET after == After
    IN  /\ pc' = after.pc
        /\ phase' = after.phase
        /\ idx' = after.idx
        /\ keywords' = after.keywords

(***************************************************************************)
(* Scoring                                                                 *)
(***************************************************************************)

\* first pass: similarity(term, title)
TermScore(term, title) == similarity(term, title)

\* the second pass without the 0.8 discount on the keyword similarity
KeywordScoreUndiscounted(term, keyword, title) ==
    Max(similarity(term, title), similarity(keyword, title))

\* second pass: max(score_vs_term, score_vs_keyword * 0.8)
KeywordScore(term, keyword, title) ==
    Max(similarity(term, title), Times(similarity(keyword, title), 4, 5))

\* third pass: similarity(phrase, title) * 0.9
SymptomScore(phrase, title) == Times(similarity(phrase, title), 9, 10)

ScoreOf(c) ==
    CASE phase = "term" -> TermScore(src.term, c.title)
      [] phase = "keyword" -> KeywordScore(src.term, keywords[idx], c.title)
      [] phase = "symptom" -> SymptomScore(symptom_phrases[idx], c.title)

\* the table entry the current pass makes of entity c
EntryOf(c) ==
    [code |-> c.theCode, title |-> c.title, score |-> ScoreOf(c),
     source |-> CurrentSource]

\* history of the scores computed: entry e has just been scored
Scored(e) ==
    /\ term_scored' = IF phase = "term" THEN term_scored \cup {e} ELSE term_scored
    /\ later_max' = IF phase # "term" THEN Max(later_max, e.score) ELSE later_max
    /\ seen_max' =
          IF \E i \in DOMAIN seen_max : seen_max[i].code = e.code
          THEN [i \in DOMAIN seen_max |->
                   IF seen_max[i].code = e.code
                   THEN [code |-> e.code, score |-> Max(seen_max[i].score, e.score)]
                   ELSE seen_max[i]]
          ELSE Append(seen_max, [code |-> e.code, score |-> e.score])

(***************************************************************************)
(* Actions of one aggregation                                              *)
(***************************************************************************)

tokVars == <<token_cache, token_calls>>

posVars == <<pc, phase, idx, keywords>>

bestVars == <<best_overall_match, best_overall_score>>

scoreHist == <<term_scored, later_max, seen_max>>

outVars == <<result, csv_writes, top_candidates, response>>

\* requests raises this from r.raise_for_status()
HTTPError == "HTTPError"

\* main.py get_token(): the credential exchange succeeds
BatchGetToken ==
    /\ mode = "batch"
    /\ pc = "start"
    /\ token_calls' = token_calls + 1
    /\ token' = Some(AccessToken(token_calls'))
    /\ pc' = "search"
    /\ UNCHANGED <<mode, src, token_cache, keywords, phase, idx, pending, returned,
                   all_candidates, bestVars, outVars, requests, error, queries,
                   scoreHist, kwVars>>

\* main.py get_token(): r.raise_for_status() raises; the script ends
BatchGetTokenFail ==
    /\ mode = "batch"
    /\ pc = "start"
    /\ token_calls' = token_calls + 1
    /\ error' = Some(HTTPError)
    /\ pc' = "aborted"
    /\ UNCHANGED <<mode, src, token, token_cache, keywords, phase, idx, pending,
                   returned, all_candidates, bestVars, outVars, requests, queries,
                   scoreHist, kwVars>>

\* search_icd(q, token) answers with the entities resp
SearchOk(resp) ==
    /\ pc = "search"
    /\ returned + Len(resp) <= MaxCands
    /\ queries' = Append(queries, CurrentQuery)
    /\ returned' = returned + Len(resp)
    /\ pending' = resp
    /\ IF resp = <<>>
       THEN GoOn
       ELSE /\ pc' = "process"
            /\ UNCHANGED <<phase, idx, keywords>>
    /\ UNCHANGED <<mode, src, token, tokVars, all_candidates, bestVars, outVars,
                   requests, error, scoreHist, kwVars>>

\* the answers of the service that carry no mapping: HTTPException(status_code,
\* detail), detail naming the exception for a 500
ErrorResponse(status, detail) ==
    [status |-> status, detail |-> detail, icd_candidates |-> <<>>,
     best_match |-> None, extracted_keywords |-> <<>>, entry |-> NoEntry]

\* a failed search taken for an empty answer: the loop goes on
SearchFailSwallowed ==
    /\ pc = "search"
    /\ queries' = Append(queries, CurrentQuery)
    /\ error' = Some(HTTPError)
    /\ pending' = <<>>
    /\ GoOn
    /\ UNCHANGED <<mode, src, token, tokVars, returned, all_candidates, bestVars,
                   outVars, requests, scoreHist, kwVars>>

\* a failed search that ends the passes and presents what was found so far
SearchFailPartial ==
    /\ pc = "search"
    /\ queries' = Append(queries, CurrentQuery)
    /\ error' = Some(HTTPError)
    /\ pending' = <<>>
    /\ pc' = "finish"
    /\ UNCHANGED <<mode, src, token, tokVars, keywords, phase, idx, returned,
                   all_candidates, bestVars, outVars, requests, scoreHist, kwVars>>

\* a failed search that also drops the cached token
SearchFailInvalidates ==
    /\ pc = "search"
    /\ queries' = Append(queries, CurrentQuery)
    /\ error' = Some(HTTPError)
    /\ IF mode = "batch"
       THEN /\ pc' = "aborted"
            /\ UNCHANGED response
       ELSE /\ pc' = "responded"
            /\ response' = Some(ErrorResponse(500, HTTPError))
    /\ token' = None
    /\ token_cache' = None
    /\ keywords' = <<>>
    /\ pending' = <<>>
    /\ all_candidates' = <<>>
    /\ best_overall_match' = None
    /\ best_overall_score' = Zero
    /\ term_scored' = {}
    /\ later_max' = Zero
    /\ seen_max' = <<>>
    /\ UNCHANGED <<mode, src, token_calls, phase, idx, returned, result, csv_writes, top_candidates,
                   requests, kwVars>>

\* search_icd(q, token): r.raise_for_status() raises.  The exception unwinds
\* the frame and its locals: the batch script ends, the service's
\* except Exception  answers 500
SearchFail ==
    /\ pc = "search"
    /\ queries' = Append(queries, CurrentQuery)
    /\ error' = Some(HTTPError)
    /\ IF mode = "batch"
       THEN /\ pc' = "aborted"
            /\ UNCHANGED response
       ELSE /\ pc' = "responded"
            /\ response' = Some(ErrorResponse(500, HTTPError))
    /\ token' = None
    /\ keywords' = <<>>
    /\ pending' = <<>>
    /\ all_candidates' = <<>>
    /\ best_overall_match' = None
    /\ best_overall_score' = Zero
    /\ term_scored' = {}
    /\ later_max' = Zero
    /\ seen_max' = <<>>
    /\ UNCHANGED <<mode, src, tokVars, phase, idx, returned, result, csv_writes, top_candidates,
                   requests, kwVars>>

\* main.py: one turn of  for c in candidates  (lines 109-118, 130-146, 164-176)
BatchProcess ==
    /\ mode = "batch"
    /\ pc = "process"
    /\ pending # <<>>
    /\ LET e == EntryOf(Head(pending))
       IN  /\ all_candidates' = IF phase = "term"
                                THEN MergeTerm(all_candidates, e)
                                ELSE MergeIfBetter(all_candidates, e)
           /\ IF Gt(e.score, best_overall_score)
              THEN /\ best_overall_score' = e.score
                   /\ best_overall_match' =
                          Some([code |-> e.code, title |-> e.title, source |-> e.source])
              ELSE UNCHANGED bestVars
           /\ Scored(e)
    /\ pending' = Tail(pending)
    /\ IF Tail(pending) = <<>>
       THEN GoOn
       ELSE UNCHANGED posVars
    /\ UNCHANGED <<mode, src, token, tokVars, returned, outVars, requests, error,
                   queries, kwVars>>

\* sample.py: one turn of  for c in candidates  (lines 784-789, 794-803)
ServiceProcess ==
    /\ mode = "service"
    /\ pc = "process"
    /\ pending # <<>>
    /\ LET c == Head(pending)
           e == EntryOf(c)
       IN  IF c.title # <<>> /\ c.theCode # ""
           THEN /\ all_candidates' = IF phase = "term"
                                     THEN MergeTerm(all_candidates, e)
                                     ELSE MergeIfBetter(all_candidates, e)
                /\ Scored(e)
           ELSE UNCHANGED <<all_candidates, scoreHist>>
    /\ pending' = Tail(pending)
    /\ IF Tail(pending) = <<>>
       THEN GoOn
       ELSE UNCHANGED posVars
    /\ UNCHANGED <<mode, src, token, tokVars, returned, bestVars, outVars, requests,
                   error, queries, kwVars>>

\* the result row built without the  if best_overall_match else None  guards:
\* best_overall_match[0] raises TypeError when nothing was found
BatchFinishUnguarded ==
    /\ mode = "batch"
    /\ pc = "finish"
    /\ IF best_overall_match = None
       THEN /\ error' = Some("TypeError")
            /\ pc' = "aborted"
            /\ UNCHANGED <<result, csv_writes, top_candidates>>
       ELSE /\ result' =
                  Some([NAMASTE_CODE |-> src.code,
                        NAMASTE_TERM |-> src.term,
                        ICD11_CODE |-> Some(best_overall_match[1].code),
                        ICD11_TERM |-> Some(best_overall_match[1].title),
                        SIMILARITY |-> Round3(best_overall_score),
                        MATCH_SOURCE |-> Some(best_overall_match[1].source)])
            /\ csv_writes' = Append(csv_writes, <<result'[1]>>)
            /\ top_candidates' = FirstFive(SortByScore(all_candidates))
            /\ pc' = "done"
            /\ UNCHANGED error
    /\ UNCHANGED <<mode, src, token, tokVars, keywords, phase, idx, pending, returned,
                   all_candidates, bestVars, response, requests, queries,
                   scoreHist, kwVars>>

\* main.py lines 179-204: the result row, written to the CSV file
BatchFinish ==
    /\ mode = "batch"
    /\ pc = "finish"
    /\ result' =
          Some([NAMASTE_CODE |-> src.code,
                NAMASTE_TERM |-> src.term,
                ICD11_CODE |-> IF best_overall_match # None
                               THEN Some(best_overall_match[1].code) ELSE None,
                ICD11_TERM |-> IF best_overall_match # None
                               THEN Some(best_overall_match[1].title) ELSE None,
                SIMILARITY |-> Round3(best_overall_score),
                MATCH_SOURCE |-> IF best_overall_match # None
                                 THEN Some(best_overall_match[1].source) ELSE None])
    /\ top_candidates' = FirstFive(SortByScore(all_candidates))
    /\ csv_writes' = Append(csv_writes, <<result'[1]>>)
    /\ pc' = "done"
    /\ UNCHANGED <<mode, src, token, tokVars, keywords, phase, idx, pending, returned,
                   all_candidates, bestVars, response, requests, error, queries,
                   scoreHist, kwVars>>

\* ICDCandidate(code=code, title=title, similarity=round(score, 3), source=source)
ICDCandidate(e) ==
    [code |-> e.code, title |-> e.title, similarity |-> Round3(e.score),
     source |-> e.source]

\* sample.py lines 807-821: best_match after the loop over the first k entries
RECURSIVE BestAfter(_, _)
BestAfter(tbl, k) ==
    IF k = 0
    THEN [best_match |-> None, best_score |-> Zero]
    ELSE LET prev == BestAfter(tbl, k - 1)
         IN  IF Gt(tbl[k].score, prev.best_score)
             THEN [best_match |-> Some(ICDCandidate(tbl[k])), best_score |-> tbl[k].score]
             ELSE prev

\* sample.py lines 806-833: the response
ServiceFinish ==
    /\ mode = "service"
    /\ pc = "finish"
    /\ response' = Some(
          [status |-> 200,
           detail |-> "",
           icd_candidates |->
               SortDesc([i \in DOMAIN all_candidates |-> ICDCandidate(all_candidates[i])]),
           best_match |-> BestAfter(all_candidates, Len(all_candidates)).best_match,
           extracted_keywords |-> keywords,
           entry |-> src])
    /\ pc' = "responded"
    /\ UNCHANGED <<mode, src, token, tokVars, keywords, phase, idx, pending, returned,
                   all_candidates, bestVars, result, csv_writes, top_candidates, requests, error,
                   queries, scoreHist, kwVars>>

(***************************************************************************)
(* The service's request handler                                           *)
(***************************************************************************)

\* a new call of the handler starts with fresh locals
FreshLocals ==
    /\ token' = None
    /\ keywords' = <<>>
    /\ phase' = "term"
    /\ idx' = 1
    /\ pending' = <<>>
    /\ returned' = 0
    /\ all_candidates' = <<>>
    /\ error' = None
    /\ queries' = <<>>
    /\ term_scored' = {}
    /\ later_max' = Zero
    /\ seen_max' = <<>>

\* a handler that calls the token endpoint before it looks the query up
RequestTokenFirst(q) ==
    /\ mode = "service"
    /\ pc \in {"idle", "responded"}
    /\ requests < MaxRequests
    /\ requests' = requests + 1
    /\ FreshLocals
    /\ token_calls' = token_calls + 1
    /\ token_cache' = Some(AccessToken(token_calls'))
    /\ LET query == strip(q)
           i == FindEntry(query)
       IN  IF i = 0
           THEN /\ response' = Some(ErrorResponse(404, "NAMASTE entry not found"))
                /\ pc' = "responded"
                /\ src' = NoEntry
           ELSE /\ response' = None
                /\ pc' = "token"
                /\ src' = [code |-> NAMASTE_DATA[i].code,
                           term |-> NAMASTE_DATA[i].term,
                           definition |-> NAMASTE_DATA[i].definition]
    /\ UNCHANGED <<mode, bestVars, result, csv_writes, top_candidates, kwVars>>

\* POST /search with body {query: q}: the lookup of lines 759-771
Request(q) ==
    /\ mode = "service"
    /\ pc \in {"idle", "responded"}
    /\ requests < MaxRequests
    /\ requests' = requests + 1
    /\ FreshLocals
    /\ LET query == strip(q)
           i == FindEntry(query)
       IN  IF i = 0
           THEN /\ response' = Some(ErrorResponse(404, "NAMASTE entry not found"))
                /\ pc' = "responded"
                /\ src' = NoEntry
           ELSE /\ response' = None
                /\ pc' = "token"
                /\ src' = [code |-> NAMASTE_DATA[i].code,
                           term |-> NAMASTE_DATA[i].term,
                           definition |-> NAMASTE_DATA[i].definition]
    /\ UNCHANGED <<mode, tokVars, bestVars, result, csv_writes, top_candidates, kwVars>>

\* sample.py get_token(), cache set: if _token_cache: return _token_cache
ServiceCachedToken ==
    /\ mode = "service"
    /\ pc = "token"
    /\ token_cache # None
    /\ token' = token_cache
    /\ keywords' = extract_keywords_sample(src.definition)
    /\ pc' = "search"
    /\ UNCHANGED <<mode, src, tokVars, phase, idx, pending, returned, all_candidates,
                   bestVars, outVars, requests, error, queries, scoreHist, kwVars>>

\* sample.py get_token(), cache empty: the credential exchange succeeds
ServiceGetToken ==
    /\ mode = "service"
    /\ pc = "token"
    /\ token_cache = None
    /\ token_calls' = token_calls + 1
    /\ token_cache' = Some(AccessToken(token_calls'))
    /\ token' = token_cache'
    /\ keywords' = extract_keywords_sample(src.definition)
    /\ pc' = "search"
    /\ UNCHANGED <<mode, src, phase, idx, pending, returned, all_candidates, bestVars,
                   outVars, requests, error, queries, scoreHist, kwVars>>

\* a failed credential exchange that is tried again
ServiceGetTokenRetry ==
    /\ mode = "service"
    /\ pc = "token"
    /\ token_cache = None
    /\ token_calls' = token_calls + 1
    /\ error' = Some(HTTPError)
    /\ UNCHANGED <<mode, pc, src, token, token_cache, keywords, phase, idx, pending,
                   returned, all_candidates, bestVars, outVars, requests,
                   queries, scoreHist, kwVars>>

\* sample.py get_token(), cache empty: r.raise_for_status() raises; 500
ServiceGetTokenFail ==
    /\ mode = "service"
    /\ pc = "token"
    /\ token_cache = None
    /\ token_calls' = token_calls + 1
    /\ error' = Some(HTTPError)
    /\ response' = Some(ErrorResponse(500, HTTPError))
    /\ pc' = "responded"
    /\ UNCHANGED <<mode, src, token, token_cache, keywords, phase, idx, pending,
                   returned, all_candidates, bestVars, result, csv_writes, top_candidates, requests,
                   queries, scoreHist, kwVars>>

Next ==
    \/ BatchGetToken
    \/ BatchGetTokenFail
    \/ \E q \in Queries : Request(q)
    \/ ServiceCachedToken
    \/ ServiceGetToken
    \/ ServiceGetTokenFail
    \/ \E resp \in Responses : SearchOk(resp)
    \/ SearchFail
    \/ BatchProcess
    \/ ServiceProcess
    \/ BatchFinish
    \/ ServiceFinish

Spec == Init /\ [][Next]_vars

(***************************************************************************)
(* Keyword extraction on its own: extract_keywords applied to a definition *)
(***************************************************************************)

\* pieces of text the definitions are put together from
Pieces == {p_hoarse, p_hard, p_strength, p_blackish, p_four, p_stop, p_punct, p_under}

\* the number of pieces in a definition
MaxPieces == 3

RECURSIVE Concat(_)
Concat(ps) == IF ps = <<>> THEN <<>> ELSE Head(ps) \o Concat(Tail(ps))

\* the definitions extract_keywords is applied to
Definitions ==
    {Concat(ps) : ps \in SeqsUpTo(Pieces, MaxPieces)} \cup {nam_def, entry6_definition}

InitKw ==
    /\ mode = "batch"
    /\ pc = "start"
    /\ src = BatchEntry
    /\ token = None
    /\ token_cache = None
    /\ token_calls = 0
    /\ Locals
    /\ csv_writes = <<>>
    /\ top_candidates = <<>>
    /\ response = None
    /\ requests = 0
    /\ error = None
    /\ kw_def \in Definitions
    /\ kw_main = None
    /\ kw_sample = None
    /\ sim_a = <<>>
    /\ sim_b = <<>>
    /\ sim_ab = None
    /\ sim_ba = None

\* main.py extract_keywords(kw_def)
ExtractMain ==
    /\ kw_main = None
    /\ kw_main' = Some(extract_keywords_main(kw_def))
    /\ UNCHANGED <<aggVars, kw_def, kw_sample, simVars>>

\* sample.py extract_keywords(kw_def)
ExtractSample ==
    /\ kw_sample = None
    /\ kw_sample' = Some(extract_keywords_sample(kw_def))
    /\ UNCHANGED <<aggVars, kw_def, kw_main, simVars>>

NextKw == ExtractMain \/ ExtractSample

SpecKw == InitKw /\ [][NextKw]_vars

(***************************************************************************)
(* similarity on its own: both argument orders of one pair of strings      *)
(***************************************************************************)

\* the characters the strings are made of
SimChars == {"a", "b", "c", "A"}

\* the length of the strings
MaxSimLen == 3

SimStrings == SeqsUpTo(SimChars, MaxSimLen)

InitSim ==
    /\ mode = "batch"
    /\ pc = "start"
    /\ src = BatchEntry
    /\ token = None
    /\ token_cache = None
    /\ token_calls = 0
    /\ Locals
    /\ csv_writes = <<>>
    /\ top_candidates = <<>>
    /\ response = None
    /\ requests = 0
    /\ error = None
    /\ kw_def = <<>>
    /\ kw_main = None
    /\ kw_sample = None
    /\ sim_a \in SimStrings
    /\ sim_b \in SimStrings
    /\ sim_ab = None
    /\ sim_ba = None

\* similarity(sim_a, sim_b)
SimilarityAB ==
    /\ sim_ab = None
    /\ sim_ab' = Some(similarity(sim_a, sim_b))
    /\ UNCHANGED <<aggVars, kw_def, kw_main, kw_sample, sim_a, sim_b, sim_ba>>

\* similarity(sim_b, sim_a)
SimilarityBA ==
    /\ sim_ba = None
    /\ sim_ba' = Some(similarity(sim_b, sim_a))
    /\ UNCHANGED <<aggVars, kw_def, kw_main, kw_sample, sim_a, sim_b, sim_ab>>

NextSim == SimilarityAB \/ SimilarityBA

SpecSim == InitSim /\ [][NextSim]_vars

(***************************************************************************)
(* Properties                                                              *)
(***************************************************************************)

\* the aggregation is over and its table is final
AtEnd ==
    \/ mode = "batch" /\ pc \in {"finish", "done"}
    \/ mode = "service" /\ pc = "finish"
    \/ mode = "service" /\ pc = "responded" /\ response # None
                        /\ response[1].status = 200

\* the result has been presented: the row is built, the response is returned
Presented ==
    \/ mode = "batch" /\ pc = "done"
    \/ mode = "service" /\ pc = "responded" /\ response # None
                        /\ response[1].status = 200

\* best of the MatchResult: [code, title, source], or None
Best ==
    IF mode = "batch"
    THEN best_overall_match
    ELSE IF response[1].best_match = None
         THEN None
         ELSE Some([code |-> response[1].best_match[1].code,
                    title |-> response[1].best_match[1].title,
                    source |-> response[1].best_match[1].source])

\* the score reported for best, in thousandths
ReportedScore ==
    IF mode = "batch"
    THEN result[1].SIMILARITY
    ELSE IF response[1].best_match = None
         THEN 0
         ELSE response[1].best_match[1].similarity

UniqueCodes(tbl) ==
    \A i, j \in DOMAIN tbl : tbl[i].code = tbl[j].code => i = j

\* a loop turn is about to score the entity at the head of the answer
AboutToScore ==
    /\ pc = "process"
    /\ pending # <<>>
    /\ mode = "service" => Head(pending).title # <<>> /\ Head(pending).theCode # ""

\* C1 (as claimed): in every pass, a candidate whose code is already in the
\* table leaves that table entry as it is unless its score is strictly greater
\* than the stored one, and the table never holds two entries for one code.
C1_KeepUnlessGreater ==
    [][ AboutToScore =>
          LET e == EntryOf(Head(pending))
          IN  /\ UniqueCodes(all_candidates')
              /\ (HasCode(all_candidates, e.code)
                  /\ ~Gt(e.score, all_candidates[IndexOf(all_candidates, e.code)].score))
                 => all_candidates' = all_candidates ]_vars

\* C2 (as claimed): at the end of an aggregation every stored score is the
\* highest score computed for that code over all the answers of the run.
C2_StoredIsMax ==
    AtEnd =>
        \A i \in DOMAIN all_candidates :
            \E j \in DOMAIN seen_max :
                /\ seen_max[j].code = all_candidates[i].code
                /\ seen_max[j].score = all_candidates[i].score

\* C3 (as claimed): when the aggregation ends with best set, best is the
\* arg-max of the table: its code is a key, its title and provenance are that
\* entry's, the reported score is that entry's score, and no entry scores higher.
C3_BestIsArgMax ==
    (Presented /\ Best # None) =>
        /\ HasCode(all_candidates, Best[1].code)
        /\ LET entry == all_candidates[IndexOf(all_candidates, Best[1].code)]
           IN  /\ entry.title = Best[1].title
               /\ entry.source = Best[1].source
               /\ ReportedScore = Round3(entry.score)
               /\ \A i \in DOMAIN all_candidates :
                      ~Gt(all_candidates[i].score, entry.score)

\* C4 (as claimed): whenever the table is not empty at the end of an
\* aggregation, best is set.
C4_BestSetIfAny ==
    (Presented /\ all_candidates # <<>>) => Best # None

\* the row main.py writes when nothing was found
EmptyRow ==
    [NAMASTE_CODE |-> nam_code, NAMASTE_TERM |-> nam_term, ICD11_CODE |-> None,
     ICD11_TERM |-> None, SIMILARITY |-> 0, MATCH_SOURCE |-> None]

\* C5: if every search succeeds with an empty answer the aggregation completes
\* normally: no exception other than a failed HTTP call is ever raised, the run
\* ends only by a failed call or with its result, and that result has best
\* unset, no candidates and the score 0.0.
C5_EmptyResultsComplete ==
    /\ error \in {None, Some(HTTPError)}
    /\ pc = "aborted" => error = Some(HTTPError)
    /\ (pc = "responded" /\ response # None /\ response[1].status = 500)
           => error = Some(HTTPError)
    /\ (pc = "finish" /\ returned = 0) => all_candidates = <<>> /\ error = None
    /\ (mode = "batch" /\ pc = "done" /\ returned = 0)
           => /\ result = Some(EmptyRow)
              /\ csv_writes = << <<EmptyRow>> >>
              /\ all_candidates = <<>>
    /\ (mode = "service" /\ Presented /\ returned = 0)
           => /\ response[1].best_match = None
              /\ response[1].icd_candidates = <<>>
              /\ ReportedScore = 0

\* C5 witness: the batch run ended after fifteen searches that all answered
\* with nothing
C5_Witness ==
    /\ mode = "batch"
    /\ pc = "done"
    /\ returned = 0
    /\ Len(queries) = 1 + MaxKeywords + Len(symptom_phrases)

IsPrefix(s, t) == Len(s) <= Len(t) /\ \A i \in DOMAIN s : s[i] = t[i]

\* the three passes in order: the term, the keywords, the symptom phrases
FullPlan == <<src.term>> \o keywords \o symptom_phrases

\* the two passes of the service in order: the term, the keywords
ServicePlan == <<src.term>> \o keywords

\* the searches sent so far are the first ones of the plan
FollowsPlan(plan) ==
    /\ IsPrefix(queries, plan)
    /\ pc = "search" => /\ Len(queries) < Len(plan)
                        /\ CurrentQuery = plan[Len(queries) + 1]
    /\ pc = "process" => /\ Len(queries) >= 1
                         /\ CurrentQuery = plan[Len(queries)]

InAggregation == pc \in {"search", "process", "finish", "done"} \/ Presented

TermBest(e) ==
    /\ e \in term_scored
    /\ \A f \in term_scored : ~Gt(f.score, e.score)

\* C7 (as claimed): if the term search returned a candidate with similarity
\* above 0 and no later candidate scored strictly higher than the best of the
\* term pass, then best is a candidate of the term pass, tagged as such, and
\* the reported score is similarity(term, its title).
C7_TermCandidateWins ==
    (/\ Presented
     /\ \E e \in term_scored : Gt(e.score, Zero)
     /\ \A e \in term_scored : TermBest(e) => ~Gt(later_max, e.score))
    => /\ Best # None
       /\ Best[1].source.kind = "NAMASTE_term"
       /\ \E e \in term_scored : e.code = Best[1].code /\ e.title = Best[1].title
       /\ ReportedScore = Round3(similarity(src.term, Best[1].title))

Elems(s) == {s[i] : i \in DOMAIN s}

\* what the two extractors returned, once they have run
Extracted ==
    (IF kw_main = None THEN {} ELSE {kw_main[1]})
    \cup (IF kw_sample = None THEN {} ELSE {kw_sample[1]})

\* C8: extract_keywords returns at most 8 items, none of them a stop-word or a
\* string of length 3 or less.
C8_AtMostEightNoStopWords ==
    \A r \in Extracted :
        /\ Len(r) <= 8
        /\ \A i \in DOMAIN r : r[i] \notin stop_words /\ Len(r[i]) > 3

\* C8 witness: eight keywords were returned for a definition that holds
\* stop-words, short words and more than eight candidates
C8_Witness ==
    /\ kw_main # None
    /\ Len(kw_main[1]) = 8
    /\ Contains(kw_def, p_stop)
    /\ Contains(kw_def, p_four \o p_four)

\* C9 (as claimed): a definition whose lowercased text contains "hoarseness"
\* and "voice" always has "hoarse voice" among its extracted keywords.
C9_HoarseVoiceIncluded ==
    (Contains(lower(kw_def), s_hoarseness) /\ Contains(lower(kw_def), s_voice))
        => \A r \in Extracted : s_hoarse_voice \in Elems(r)

\* the words of a text: the maximal runs of word characters of its lowercase
WordsOf(text) ==
    LET low == lower(text)
        starts == Ascending({i \in 1..Len(low) :
                      IsWord(low[i]) /\ (i = 1 \/ ~IsWord(low[i - 1]))})
        RunEnd(i) == CHOOSE j \in i..Len(low) :
                      /\ \A k \in i..j : IsWord(low[k])
                      /\ (j = Len(low) \/ ~IsWord(low[j + 1]))
    IN  <<>> \o [k \in 1..Len(starts) |-> SubSeq(low, starts[k], RunEnd(starts[k]))]

\* (a) the words longer than 3 that are no stop-word and contain a vocabulary term
DomainWords(text, terms) ==
    SelectSeq(WordsOf(text),
              LAMBDA w : /\ Len(w) > 3
                         /\ w \notin stop_words
                         /\ \E k \in DOMAIN terms : Contains(w, terms[k]))

\* (b) the compound phrases whose conditions hold on the lowercased text
PhrasesOf(text, withSkin) ==
    LET low == lower(text)
        Both(x, y, out) == IF Contains(low, x) /\ Contains(low, y) THEN <<out>> ELSE <<>>
    IN  Both(s_hoarseness, s_voice, s_hoarse_voice)
        \o Both(s_hard, s_stools, s_hard_stools)
        \o Both(s_physical, s_strength, s_weakness)
        \o (IF withSkin
            THEN Both(s_blackish, s_discoloration, s_skin_discoloration)
            ELSE <<>>)

FirstEight(s) == [i \in 1..(IF Len(s) > 8 THEN 8 ELSE Len(s)) |-> s[i]]

\* C10: extract_keywords returns the first 8 entries of (a) followed by (b);
\* a definition without any word character yields the empty sequence.
C10_FirstEightOfWordsThenPhrases ==
    /\ kw_main # None =>
          kw_main[1] = FirstEight(DomainWords(kw_def, medical_terms_main)
                                  \o PhrasesOf(kw_def, TRUE))
    /\ kw_sample # None =>
          kw_sample[1] = FirstEight(DomainWords(kw_def, medical_terms_sample)
                                    \o PhrasesOf(kw_def, FALSE))
    /\ (\A i \in DOMAIN kw_def : ~IsWord(kw_def[i]))
          => \A r \in Extracted : r = <<>>

\* C10 witness: the keywords returned end with compound phrases that follow
\* words of a definition with punctuation and capitals
C10_Witness ==
    /\ kw_main # None
    /\ kw_def = p_punct \o p_hard \o p_blackish
    /\ kw_main[1] = <<s_stools, s_blackish, s_discoloration, s_hard_stools,
                      s_skin_discoloration>>

\* C11 (as claimed): similarity gives the same value for both argument orders.
C11_Symmetric ==
    (sim_ab # None /\ sim_ba # None) => sim_ab = sim_ba

\* a score between 0 and 1
InUnit(x) == 0 <= x.n /\ x.n <= x.d

\* C12: every stored score and every reported best score lies in [0,1]; an
\* entry tagged with a symptom phrase scores at most 0.9; an entry tagged with
\* a keyword scores max(similarity(term, title), 0.8 * similarity(keyword,
\* title)), which is never below similarity(term, title).
C12_ScoresBounded ==
    /\ \A i \in DOMAIN all_candidates :
          LET e == all_candidates[i]
          IN  /\ InUnit(e.score)
              /\ e.source.kind = "symptom" => ~Gt(e.score, Frac(9, 10))
              /\ e.source.kind = "keyword" =>
                    LET vs_term == similarity(src.term, e.title)
                        vs_keyword == similarity(e.source.q, e.title)
                    IN  /\ e.score = (IF Gt(Times(vs_keyword, 4, 5), vs_term)
                                      THEN Times(vs_keyword, 4, 5) ELSE vs_term)
                        /\ ~Gt(vs_term, e.score)
    /\ InUnit(best_overall_score)
    /\ Presented => ReportedScore \in 0..1000

\* C12 witness: a finished table holding a keyword entry that owes its score
\* to the discounted keyword similarity and a symptom entry with a score
C12_Witness ==
    /\ AtEnd
    /\ \E i, j \in DOMAIN all_candidates :
          /\ all_candidates[i].source.kind = "keyword"
          /\ all_candidates[i].score = Frac(4, 5)
          /\ all_candidates[j].source.kind = "symptom"
          /\ Gt(all_candidates[j].score, Zero)

\* C13: in the service, once the token is cached no step changes the cache or
\* calls the token endpoint again, whatever requests and search failures
\* follow.
C13_CacheNeverRefreshed ==
    [][(mode = "service" /\ token_cache # None)
          => /\ token_cache' = token_cache
             /\ token_calls' = token_calls
             /\ token' \in {None, token_cache}]_vars

\* C13 witness: the second request, served with the token the first request
\* cached, has just failed on a search and the cache is still the first token
C13_Witness ==
    /\ mode = "service"
    /\ requests = 2
    /\ pc = "responded"
    /\ response = Some(ErrorResponse(500, HTTPError))
    /\ queries # <<>>
    /\ token_calls = 1
    /\ token_cache = Some(AccessToken(1))

\* the credential exchange of this run or request has failed
TokenFailed ==
    /\ pc \in {"aborted", "responded"}
    /\ error = Some(HTTPError)
    /\ queries = <<>>

\* C14: a failed credential exchange is fatal and not retried: one call of the
\* token endpoint per run or request, no search afterwards, the cache stays
\* unset, the batch script ends without writing the CSV file, the service
\* answers 500.
C14_TokenFailureFatal ==
    /\ [](/\ mode = "batch" => token_calls <= 1
          /\ mode = "service" => token_calls <= requests
          /\ TokenFailed =>
                /\ token = None
                /\ token_cache = None
                /\ mode = "batch" =>
                      /\ pc = "aborted"
                      /\ token_calls = 1
                      /\ result = None
                      /\ csv_writes = <<>>
                /\ mode = "service" =>
                      response = Some(ErrorResponse(500, HTTPError)))
    /\ [][TokenFailed => /\ mode = "service"
                         /\ requests' = requests + 1
                         /\ token_calls' = token_calls
                         /\ queries' = <<>>]_vars

\* C14 witness: two requests of the service each failed on their one
\* credential exchange
C14_Witness ==
    /\ mode = "service"
    /\ TokenFailed
    /\ requests = 2
    /\ token_calls = 2

\* C15: in the batch script the first failed search ends the run: nothing
\* follows it, neither a retry nor a later search, and the CSV file is not
\* written.  The file is written once, with one row, and only when every
\* search of the three passes has succeeded.
C15_BatchAbortsOnSearchFailure ==
    /\ [](mode = "batch" =>
            /\ Len(csv_writes) <= 1
            /\ pc = "done" <=> csv_writes # <<>>
            /\ csv_writes # <<>> =>
                  /\ Len(csv_writes[1]) = 1
                  /\ result = Some(csv_writes[1][1])
                  /\ error = None
                  /\ queries = FullPlan
                  /\ Len(queries) = 1 + Len(keywords) + Len(symptom_phrases)
            /\ pc = "aborted" =>
                  /\ error = Some(HTTPError)
                  /\ csv_writes = <<>>
                  /\ result = None
            /\ error # None => pc = "aborted")
    /\ [][(mode = "batch" /\ pc = "aborted") => FALSE]_vars

\* C15 witness: the batch run ended on a failed search of the symptom pass,
\* after searches that had returned candidates
C15_Witness ==
    /\ mode = "batch"
    /\ pc = "aborted"
    /\ Len(queries) > 1 + MaxKeywords
    /\ returned > 0
    /\ csv_writes = <<>>

\* the codes of a list of table entries or of presented candidates, in order
CodesOf(s) == [i \in DOMAIN s |-> s[i].code]

\* C16: in the service a request for a configured concept answers 500, naming
\* the error, as soon as the credential exchange or one search fails; it
\* answers 200 only with a token and with every search of its plan answered,
\* so a response never carries a partly built table.
C16_ServiceFailureIs500 ==
    /\ []((mode = "service" /\ pc = "responded") =>
            /\ response # None
            /\ response[1].status \in {200, 404, 500}
            /\ error # None <=> response[1].status = 500
            /\ response[1].status = 500 =>
                  /\ response[1].detail = error[1]
                  /\ response[1].icd_candidates = <<>>
                  /\ response[1].best_match = None
            /\ response[1].status = 200 =>
                  /\ token # None
                  /\ token = token_cache
                  /\ queries = ServicePlan
                  /\ response[1].extracted_keywords = keywords
                  /\ Elems(CodesOf(response[1].icd_candidates))
                        = Elems(CodesOf(all_candidates)))
    /\ [][(mode = "service" /\ error = None /\ error' # None) =>
              /\ pc \in {"token", "search"}
              /\ pc' = "responded"
              /\ response' = Some(ErrorResponse(500, HTTPError))]_vars

\* C16 witness: a request answered 500 on a failed keyword search although
\* earlier searches of the request had returned candidates
C16_Witness ==
    /\ mode = "service"
    /\ pc = "responded"
    /\ response = Some(ErrorResponse(500, HTTPError))
    /\ Len(queries) > 1
    /\ returned > 0

\* the concept e matches the request body q: q, stripped and lowercased, is a
\* substring of the lowercased code or of the lowercased term
ConceptMatches(q, e) ==
    \/ Contains(lower(e.code), lower(strip(q)))
    \/ Contains(lower(e.term), lower(strip(q)))

\* the positions in the lookup table of the concepts that match q
MatchingConcepts(q) ==
    {i \in DOMAIN NAMASTE_DATA : ConceptMatches(q, NAMASTE_DATA[i])}

\* C17: a request is answered 404 exactly when no configured concept matches
\* its query; otherwise the handler goes on with the first matching concept
\* in table order, so that "SR12" selects "SR12 (AAA-2)".
C17_NotFoundIffNoMatch ==
    [][\A q \in Queries :
          Request(q) =>
             /\ (response' # None /\ response'[1].status = 404)
                   <=> MatchingConcepts(q) = {}
             /\ MatchingConcepts(q) = {} => pc' = "responded"
             /\ MatchingConcepts(q) # {} =>
                   /\ pc' = "token"
                   /\ response' = None
                   /\ \E i \in MatchingConcepts(q) :
                         /\ \A j \in MatchingConcepts(q) : i <= j
                         /\ src'.code = NAMASTE_DATA[i].code
                         /\ src'.term = NAMASTE_DATA[i].term
                         /\ src'.definition = NAMASTE_DATA[i].definition
             /\ q = q_sr12 => src'.code = nam_code]_vars

\* C17 witness: after a request that was answered 404 without a token
\* exchange, a request whose query matched is being served with concept
\* "SR12 (AAA-2)"
C17_Witness ==
    /\ mode = "service"
    /\ requests = 2
    /\ token_calls = 0
    /\ pc = "token"
    /\ src.code = nam_code

\* C18: the candidates of a service response are in descending order of their
\* similarity, candidates of equal similarity stand in table insertion order,
\* and the list holds one candidate per code of the table; the listing the
\* batch script prints is in descending order of the score.
C18_PresentedSorted ==
    /\ (mode = "service" /\ Presented) =>
          LET L == response[1].icd_candidates
          IN  /\ \A i \in 1..(Len(L) - 1) : L[i].similarity >= L[i + 1].similarity
              /\ \A i, j \in DOMAIN L :
                    (i < j /\ L[i].similarity = L[j].similarity)
                       => IndexOf(all_candidates, L[i].code)
                             < IndexOf(all_candidates, L[j].code)
              /\ Len(L) = Len(all_candidates)
              /\ UniqueCodes(L)
              /\ \A k \in DOMAIN all_candidates :
                    \E i \in DOMAIN L :
                       /\ L[i].code = all_candidates[k].code
                       /\ L[i].title = all_candidates[k].title
                       /\ L[i].source = all_candidates[k].source
                       /\ L[i].similarity = Round3(all_candidates[k].score)
    /\ (mode = "batch" /\ pc = "done") =>
          /\ \A i \in 1..(Len(top_candidates) - 1) :
                ~Gt(top_candidates[i + 1].score, top_candidates[i].score)
          /\ Len(top_candidates) = IF Len(all_candidates) <= TopListed
                                   THEN Len(all_candidates) ELSE TopListed
          /\ \A i \in DOMAIN top_candidates :
                \E k \in DOMAIN all_candidates : top_candidates[i] = all_candidates[k]

\* C18 witness: a service response of two candidates whose order in the
\* table was ascending
C18_Witness ==
    /\ mode = "service"
    /\ Presented
    /\ Len(all_candidates) = 2
    /\ Gt(all_candidates[2].score, all_candidates[1].score)
    /\ response[1].icd_candidates[1].code = all_candidates[2].code

\* C19 (as claimed): in a successful service response with best_match set,
\* best_match is a candidate of the ranked list and is its first element.
C19_BestIsFirstRanked ==
    (mode = "service" /\ Presented /\ response[1].best_match # None) =>
        /\ \E i \in DOMAIN response[1].icd_candidates :
              response[1].icd_candidates[i] = response[1].best_match[1]
        /\ response[1].icd_candidates[1] = response[1].best_match[1]

\* the last request was answered 404
NotFound ==
    /\ mode = "service"
    /\ pc = "responded"
    /\ response # None
    /\ response[1].status = 404

\* C20: a request whose query matches no concept is answered 404 before any
\* remote call: no token exchange and no search is made for it, and the token
\* cache is left as it was.
C20_NotFoundTouchesNothing ==
    /\ [](NotFound => /\ queries = <<>>
                      /\ token = None
                      /\ error = None
                      /\ all_candidates = <<>>)
    /\ [][(requests' # requests /\ NotFound') =>
              /\ token_calls' = token_calls
              /\ token_cache' = token_cache]_vars
    /\ [][NotFound => /\ requests' = requests + 1
                      /\ token_calls' = token_calls
                      /\ token_cache' = token_cache
                      /\ queries' = <<>>]_vars

\* C20 witness: the first request cached a token, the second was answered
\* 404 and the cache still holds that token
C20_Witness ==
    /\ NotFound
    /\ requests = 2
    /\ token_calls = 1
    /\ token_cache = Some(AccessToken(1))

\* C21 (as claimed): in both modes every key of the candidate table and every
\* reported best code is a non-empty string with a non-empty title.
C21_NoEmptyCandidate ==
    /\ \A i \in DOMAIN all_candidates :
          /\ all_candidates[i].code # ""
          /\ all_candidates[i].title # <<>>
    /\ best_overall_match # None =>
          /\ best_overall_match[1].code # ""
          /\ best_overall_match[1].title # <<>>
    /\ (mode = "service" /\ Presented /\ response[1].best_match # None) =>
          /\ response[1].best_match[1].code # ""
          /\ response[1].best_match[1].title # <<>>
    /\ (mode = "batch" /\ pc = "done") =>
          /\ result[1].ICD11_CODE # Some("")
          /\ result[1].ICD11_TERM # Some(<<>>)

\* C22 (as claimed): extract_keywords of main.py and extract_keywords of
\* sample.py return the same keyword sequence for every definition.
C22_ExtractorsAgree ==
    (kw_main # None /\ kw_sample # None) => kw_main = kw_sample

=============================================================================
